---------------------------- MODULE Spec2Model ----------------------------
(***************************************************************************)
(* sys-doctor: Smart Linux System Health Analyzer (CPU / GPU / RAM / Disk). *)
(*                                                                         *)
(* A model of src/sys-doctor-v1.py.  Text is a sequence of one-character   *)
(* strings, so that str.lower, the `in` substring test, str.strip,         *)
(* str.split, str.splitlines, int() and float() are computed the way the   *)
(* program computes them.  An uncaught Python exception ends the run in    *)
(* pc = "crashed"; sys.exit(1) ends it in pc = "exited".                   *)
(***************************************************************************)
EXTENDS Integers, Sequences, FiniteSets, Bags, TLC

VARIABLES
    pc,         \* position of main(): choose, prepare, cpu, gpu, ram, disk,
                \* emit, done, invalid, crashed, exited (call/ret: see below)
    available,  \* executables that shutil.which resolves right now
    is_root,    \* os.geteuid() = 0
    tests,      \* main: the list choose_tests() returned
    ready,      \* main: the value prepare_environment() returned
    cpu_s, gpu_s, ram_s, disk_s,  \* main: the four scores
    report,     \* main: the report lines, in the order appended
    total,      \* main: the printed TOTAL SCORE
    tips,       \* main: the printed AI SUGGESTIONS
    answers,    \* the replies typed at the prompts of ask(), in order
    installs,   \* one bag of package names per `apt install -y` command run
    calls,      \* the functions main() has called so far, in call order
    arg, ret    \* argument and result of a function applied on its own

vars == << pc, available, is_root, tests, ready, cpu_s, gpu_s, ram_s, disk_s,
           report, total, tips, answers, installs, calls, arg, ret >>

mainVars == << available, is_root, tests, ready, cpu_s, gpu_s, ram_s, disk_s,
               report, total, tips, answers, installs, calls >>

-----------------------------------------------------------------------------
(* Bounds of the model. *)

\* Largest number of block devices lsblk lists when disk_health is applied on
\* its own, and in a run of main.
MaxDisks == 3
MaxRunDisks == 2

\* Largest score handed to ai_suggestions when it is applied on its own
\* (the smallest is -1).
MaxScoreArg == 17

-----------------------------------------------------------------------------
(* Python's str operations on sequences of characters. *)

UpperLetters ==
    << "A", "B", "C", "D", "E", "F", "G", "H", "I", "J", "K", "L", "M",
       "N", "O", "P", "Q", "R", "S", "T", "U", "V", "W", "X", "Y", "Z" >>

LowerLetters ==
    << "a", "b", "c", "d", "e", "f", "g", "h", "i", "j", "k", "l", "m",
       "n", "o", "p", "q", "r", "s", "t", "u", "v", "w", "x", "y", "z" >>

Digits == << "0", "1", "2", "3", "4", "5", "6", "7", "8", "9" >>

LowerChar(c) ==
    IF \E i \in 1..26 : UpperLetters[i] = c
    THEN LowerLetters[CHOOSE i \in 1..26 : UpperLetters[i] = c]
    ELSE c

UpperChar(c) ==
    IF \E i \in 1..26 : LowerLetters[i] = c
    THEN UpperLetters[CHOOSE i \in 1..26 : LowerLetters[i] = c]
    ELSE c

\* s.lower()
lower(s) == [i \in 1..Len(s) |-> LowerChar(s[i])]

\* sub in s
Contains(sub, s) ==
    \E i \in 0..(Len(s) - Len(sub)) : SubSeq(s, i + 1, i + Len(sub)) = sub

IsSpace(c) == c \in {" ", "\n", "\t"}

RECURSIVE lstrip(_)
lstrip(s) == IF s # << >> /\ IsSpace(s[1]) THEN lstrip(Tail(s)) ELSE s

RECURSIVE rstrip(_)
rstrip(s) ==
    IF s # << >> /\ IsSpace(s[Len(s)]) THEN rstrip(SubSeq(s, 1, Len(s) - 1)) ELSE s

\* s.strip()
strip(s) == rstrip(lstrip(s))

\* Index of the first character of s satisfying the test, Len(s) + 1 if none.
FirstSpace(s) ==
    IF \E i \in 1..Len(s) : IsSpace(s[i])
    THEN CHOOSE i \in 1..Len(s) : IsSpace(s[i]) /\ \A j \in 1..(i - 1) : ~IsSpace(s[j])
    ELSE Len(s) + 1

FirstOf(c, s) ==
    IF \E i \in 1..Len(s) : s[i] = c
    THEN CHOOSE i \in 1..Len(s) : s[i] = c /\ \A j \in 1..(i - 1) : s[j] # c
    ELSE Len(s) + 1

\* s.split(): the maximal runs of non-whitespace characters.
RECURSIVE split(_)
split(s) ==
    LET t == lstrip(s)
        n == FirstSpace(t)
    IN  IF t = << >> THEN << >>
        ELSE << SubSeq(t, 1, n - 1) >> \o split(SubSeq(t, n, Len(t)))

\* s.split(":", 1): at most one split, at the first colon.
split_colon_1(s) ==
    LET n == FirstOf(":", s)
    IN  IF n > Len(s) THEN << s >>
        ELSE << SubSeq(s, 1, n - 1), SubSeq(s, n + 1, Len(s)) >>

\* s.splitlines()
RECURSIVE splitlines(_)
splitlines(s) ==
    LET n == FirstOf("\n", s)
    IN  IF s = << >> THEN << >>
        ELSE IF n > Len(s) THEN << s >>
        ELSE << SubSeq(s, 1, n - 1) >> \o splitlines(SubSeq(s, n + 1, Len(s)))

IsDigit(c) == \E i \in 1..10 : Digits[i] = c

DigitValue(c) == (CHOOSE i \in 1..10 : Digits[i] = c) - 1

AllDigits(s) == s # << >> /\ \A i \in 1..Len(s) : IsDigit(s[i])

RECURSIVE DecimalValue(_)
DecimalValue(s) ==
    IF s = << >> THEN 0
    ELSE 10 * DecimalValue(SubSeq(s, 1, Len(s) - 1)) + DigitValue(s[Len(s)])

\* int(tok) raises ValueError unless tok is an optionally signed decimal numeral.
IsIntLiteral(tok) ==
    IF tok # << >> /\ tok[1] \in {"+", "-"} THEN AllDigits(Tail(tok)) ELSE AllDigits(tok)

\* int(tok)
int(tok) ==
    IF tok[1] = "-" THEN 0 - DecimalValue(Tail(tok))
    ELSE IF tok[1] = "+" THEN DecimalValue(Tail(tok))
    ELSE DecimalValue(tok)

\* float(tok) raises ValueError unless tok is a decimal numeral with an optional
\* fraction (the form lscpu prints: 3600.0000).
IsFloatLiteral(tok) ==
    LET n == FirstOf(".", tok)
    IN  IF n > Len(tok) THEN AllDigits(tok)
        ELSE AllDigits(SubSeq(tok, 1, n - 1)) /\ AllDigits(SubSeq(tok, n + 1, Len(tok)))

\* float(tok), as a fixed-point number of ten-thousandths (the fraction is cut
\* after four digits, which keeps every comparison with a whole number exact).
float(tok) ==
    LET n    == FirstOf(".", tok)
        frac == IF n > Len(tok) THEN << >> ELSE SubSeq(tok, n + 1, Len(tok))
        pad  == SubSeq(frac \o << "0", "0", "0", "0" >>, 1, 4)
    IN  DecimalValue(SubSeq(tok, 1, n - 1)) * 10000 + DecimalValue(pad)

\* run(cmd): the text the command wrote (stdout and stderr), stripped.
run(output) == strip(output)

-----------------------------------------------------------------------------
(* Scoring engine. *)

Min(a, b) == IF a <= b THEN a ELSE b

\* cpu_score(cores, mhz); mhz in ten-thousandths of a MHz.
cpu_score(cores, mhz) ==
    LET s1 == IF cores >= 4 THEN 10 ELSE 5
        s2 == s1 + (IF mhz >= 3000 * 10000 THEN 10 ELSE 5)
    IN  Min(s2, 25)

\* gpu_score without the .lower() of the description.
gpu_score_CaseSensitive(gpu, renderer) ==
    LET nvidia   == << "n", "v", "i", "d", "i", "a" >>
        amd      == << "a", "m", "d" >>
        intel    == << "i", "n", "t", "e", "l" >>
        llvmpipe == << "l", "l", "v", "m", "p", "i", "p", "e" >>
        s1 == IF Contains(nvidia, gpu) \/ Contains(amd, gpu) THEN 10
              ELSE IF Contains(intel, gpu) THEN 7
              ELSE 3
        s2 == IF renderer # << >> /\ ~Contains(llvmpipe, lower(renderer))
              THEN s1 + 10
              ELSE s1 + 3
    IN  IF s2 <= 25 THEN s2 ELSE 25

\* gpu_score(gpu, renderer)
gpu_score(gpu, renderer) ==
    LET nvidia   == << "n", "v", "i", "d", "i", "a" >>
        amd      == << "a", "m", "d" >>
        intel    == << "i", "n", "t", "e", "l" >>
        llvmpipe == << "l", "l", "v", "m", "p", "i", "p", "e" >>
        s1 == IF Contains(nvidia, lower(gpu)) \/ Contains(amd, lower(gpu)) THEN 10
              ELSE IF Contains(intel, lower(gpu)) THEN 7
              ELSE 3
        s2 == IF renderer # << >> /\ ~Contains(llvmpipe, lower(renderer))
              THEN s1 + 10
              ELSE s1 + 3
    IN  Min(s2, 25)

\* ram_score(gb); gb in tenths of a GiB.
ram_score(gb) ==
    IF gb >= 160 THEN 20
    ELSE IF gb >= 80 THEN 13
    ELSE IF gb >= 40 THEN 8
    ELSE 4

\* disk_score(status)
disk_score(status) == IF status = "Healthy" THEN 20 ELSE 8

-----------------------------------------------------------------------------
(* Suggestion engine. *)

TipCpu  == "CPU is aging. Consider upgrading in the future."
TipGpu  == "GPU is outdated. Upgrade recommended for graphics."
TipRam  == "Upgrade RAM to at least 8-16 GB."
TipDisk == "Disk health warning. Backup data and replace disk."
TipNone == "System is well balanced. No upgrade needed now."

\* The RAM threshold tested with <= instead of <.
ai_suggestions_RamLe(cpu, gpu, ram, disk) ==
    LET t1 == IF cpu < 12 THEN << TipCpu >> ELSE << >>
        t2 == IF gpu < 12 THEN Append(t1, TipGpu) ELSE t1
        t3 == IF ram <= 13 THEN Append(t2, TipRam) ELSE t2
        t4 == IF disk < 15 THEN Append(t3, TipDisk) ELSE t3
    IN  IF t4 = << >> THEN << TipNone >> ELSE t4

\* ai_suggestions(cpu, gpu, ram, disk)
ai_suggestions(cpu, gpu, ram, disk) ==
    LET t1 == IF cpu < 12 THEN << TipCpu >> ELSE << >>
        t2 == IF gpu < 12 THEN Append(t1, TipGpu) ELSE t1
        t3 == IF ram < 13 THEN Append(t2, TipRam) ELSE t2
        t4 == IF disk < 15 THEN Append(t3, TipDisk) ELSE t3
    IN  IF t4 = << >> THEN << TipNone >> ELSE t4

-----------------------------------------------------------------------------
(* Texts the external utilities write.  Each set holds what the utility   *)
(* can print on some machine; the empty text is grep finding no line.     *)

\* What `sh -c` prints for a command that cannot be resolved.
ErrLscpu ==
    << "s", "h", ":", " ", "1", ":", " ", "l", "s", "c", "p", "u", ":", " ",
       "n", "o", "t", " ", "f", "o", "u", "n", "d" >>

ErrLspci ==
    << "s", "h", ":", " ", "1", ":", " ", "l", "s", "p", "c", "i", ":", " ",
       "n", "o", "t", " ", "f", "o", "u", "n", "d" >>

ErrLsblk ==
    << "s", "h", ":", " ", "1", ":", " ", "l", "s", "b", "l", "k", ":", " ",
       "n", "o", "t", " ", "f", "o", "u", "n", "d" >>

ErrSmartctl ==
    << "s", "h", ":", " ", "1", ":", " ", "s", "m", "a", "r", "t", "c", "t",
       "l", ":", " ", "n", "o", "t", " ", "f", "o", "u", "n", "d" >>

\* lscpu | grep 'Model name'
ModelNameLine ==
    << "M", "o", "d", "e", "l", " ", "n", "a", "m", "e", ":", " ", " ", "E",
       "x", "a", "m", "p", "l", "e", " ", "C", "P", "U", "\n" >>

\* lscpu | grep '^CPU(s):'
Cpus8Line ==
    << "C", "P", "U", "(", "s", ")", ":", " ", " ", " ", "8", "\n" >>

Cpus2Line ==
    << "C", "P", "U", "(", "s", ")", ":", " ", " ", " ", "2", "\n" >>

\* lscpu | grep 'max MHz'
MaxMhz3600Line ==
    << "C", "P", "U", " ", "m", "a", "x", " ", "M", "H", "z", ":", " ", " ",
       "3", "6", "0", "0", ".", "0", "0", "0", "0", "\n" >>

MaxMhz2400Line ==
    << "C", "P", "U", " ", "m", "a", "x", " ", "M", "H", "z", ":", " ", " ",
       "2", "4", "0", "0", ".", "0", "0", "0", "0", "\n" >>

\* grep MemTotal /proc/meminfo
MemTotal16Line ==
    << "M", "e", "m", "T", "o", "t", "a", "l", ":", " ", " ", "1", "6", "7",
       "7", "7", "2", "1", "6", " ", "k", "B", "\n" >>

MemTotal8Line ==
    << "M", "e", "m", "T", "o", "t", "a", "l", ":", " ", " ", "8", "3", "8",
       "8", "6", "0", "8", " ", "k", "B", "\n" >>

MemTotal7Line ==
    << "M", "e", "m", "T", "o", "t", "a", "l", ":", " ", " ", "8", "0", "0",
       "0", "0", "0", "0", " ", "k", "B", "\n" >>

MemTotal3Line ==
    << "M", "e", "m", "T", "o", "t", "a", "l", ":", " ", " ", "3", "1", "4",
       "5", "7", "2", "8", " ", "k", "B", "\n" >>

\* lspci | egrep -i 'vga|3d|display'
VgaPrefix ==
    << "V", "G", "A", ":", " " >>

ChipSuffix ==
    << " ", "G", "A", "1", "0", "4" >>

Matrox ==
    << "M", "a", "t", "r", "o", "x" >>

Nvidia ==
    << "n", "v", "i", "d", "i", "a" >>

Amd ==
    << "a", "m", "d" >>

Intel ==
    << "i", "n", "t", "e", "l" >>

\* glxinfo 2>/dev/null | grep 'OpenGL renderer'
RendererPrefix ==
    << "O", "p", "e", "n", "G", "L", " ", "r", "e", "n", "d", "e", "r", "e",
       "r", " ", "s", "t", "r", "i", "n", "g", ":", " " >>

Llvmpipe ==
    << "l", "l", "v", "m", "p", "i", "p", "e", " ", "(", "L", "L", "V", "M",
       " ", "1", "5", ")" >>

GeForce ==
    << "G", "e", "F", "o", "r", "c", "e", " ", "R", "T", "X" >>

\* smartctl -H /dev/<name>
SmartPassed ==
    << "r", "e", "s", "u", "l", "t", ":", " ", "P", "A", "S", "S", "E", "D",
       "\n" >>

SmartFailed ==
    << "r", "e", "s", "u", "l", "t", ":", " ", "F", "A", "I", "L", "E", "D",
       "!", "\n" >>

SmartOpenFailed ==
    << "o", "p", "e", "n", " ", "f", "a", "i", "l", "e", "d", "\n" >>

\* lsblk -nd -o NAME prints one of these names per line
DiskNames ==
    << << "s", "d", "a" >>,
       << "s", "d", "b" >>,
       << "s", "d", "c" >>,
       << "s", "d", "d" >> >>

-----------------------------------------------------------------------------
(* Tool registry and environment preparation. *)

Tests == << "cpu", "gpu", "ram", "disk" >>

\* TOOLS_BY_TEST: per test, executable -> package providing it.
TOOLS_BY_TEST ==
    [ cpu  |-> [ lscpu |-> "util-linux" ],
      gpu  |-> [ lspci |-> "pciutils", lsmod |-> "kmod", glxinfo |-> "mesa-utils" ],
      ram  |-> << >>,
      disk |-> [ lsblk |-> "util-linux", smartctl |-> "smartmontools" ] ]

AllTools == UNION { DOMAIN TOOLS_BY_TEST[t] : t \in DOMAIN TOOLS_BY_TEST }

Range(f) == { f[x] : x \in DOMAIN f }

\* exists(cmd)
exists(cmd, avail) == cmd \in avail

\* needed, after the loop of needed.update(TOOLS_BY_TEST.get(t, {})): a later
\* test's entry for an executable replaces an earlier one.
Needed(ts) ==
    LET has(c) == { i \in 1..Len(ts) : c \in DOMAIN TOOLS_BY_TEST[ts[i]] }
        last(c) == CHOOSE i \in has(c) : \A j \in has(c) : j <= i
    IN  [ c \in { c \in AllTools : has(c) # {} } |-> TOOLS_BY_TEST[ts[last(c)]][c] ]

\* missing = {c: p for c, p in needed.items() if not exists(c)}
Missing(ts, avail) ==
    LET needed == Needed(ts)
    IN  [ c \in { c \in DOMAIN needed : ~exists(c, avail) } |-> needed[c] ]

\* The packages joined without set(): one argument per missing executable.
Pkgs_NoDedup(missing) ==
    [ p \in Range(missing) |-> Cardinality({ c \in DOMAIN missing : missing[c] = p }) ]

\* The package arguments of the apt command: " ".join(set(missing.values())).
\* A set iterates in no fixed order, so the arguments are a bag.
Pkgs(missing) == SetToBag(Range(missing))

\* choose_tests(): the menu choice read from the user, and the list returned.
Choices == { "1", "2", "3", "4", "5", "other" }

choose_tests(choice) ==
    CASE choice = "1" -> << "cpu" >>
      [] choice = "2" -> << "gpu" >>
      [] choice = "3" -> << "ram" >>
      [] choice = "4" -> << "disk" >>
      [] choice = "5" -> << "cpu", "gpu", "ram", "disk" >>
      [] OTHER        -> << >>

\* "t" in tests
InTests(t) == \E i \in 1..Len(tests) : tests[i] = t

-----------------------------------------------------------------------------
(* Metric collectors.  Each takes the texts its commands wrote and returns *)
(* a record; raised = TRUE is an uncaught IndexError or ValueError.        *)

\* What the three lscpu pipelines can write.
CpuOutputs(avail) ==
    IF "lscpu" \in avail
    THEN [ model : { << >>, ModelNameLine },
           cpus  : { << >>, Cpus8Line, Cpus2Line },
           mhz   : { << >>, MaxMhz3600Line, MaxMhz2400Line } ]
    ELSE { [ model |-> ErrLscpu, cpus |-> ErrLscpu, mhz |-> ErrLscpu ] }

\* cpu_info()
cpu_info(out) ==
    LET m      == split_colon_1(run(out.model))
        c      == split(run(out.cpus))
        f      == run(out.mhz)
        ftoks  == split(f)
        raised == \/ Len(m) < 2                                \* [1]: IndexError
                  \/ c = << >>                                 \* [-1]: IndexError
                  \/ ~IsIntLiteral(c[Len(c)])                  \* int: ValueError
                  \/ f # << >> /\ ~IsFloatLiteral(ftoks[Len(ftoks)])
    IN  IF raised
        THEN [ raised |-> TRUE, model |-> << >>, cores |-> 0, max_mhz |-> 0 ]
        ELSE [ raised  |-> FALSE,
               model   |-> strip(m[2]),
               cores   |-> int(c[Len(c)]),
               max_mhz |-> IF f # << >> THEN float(ftoks[Len(ftoks)]) ELSE 0 ]

\* Display-class lspci lines used in the runs of main.
LspciLines ==
    { << >>,
      VgaPrefix \o [ i \in 1..6 |-> UpperChar(Nvidia[i]) ] \o ChipSuffix,
      VgaPrefix \o [ i \in 1..3 |-> UpperChar(Amd[i]) ],
      VgaPrefix \o << UpperChar(Intel[1]) >> \o Tail(Intel),
      VgaPrefix \o Matrox }

\* Renderer lines glxinfo can write.
RendererLines ==
    { << >>,
      RendererPrefix \o Llvmpipe,
      RendererPrefix \o lower(GeForce),
      RendererPrefix \o GeForce,
      RendererPrefix \o << UpperChar(Nvidia[1]) >> \o Tail(Nvidia) \o << " " >> \o GeForce,
      [ i \in 1..8 |-> UpperChar(Llvmpipe[i]) ] }

\* What the two GPU pipelines can write.  glxinfo's stderr goes to /dev/null,
\* so a missing glxinfo writes nothing.
GpuOutputs(avail) ==
    [ gpu      : IF "lspci" \in avail THEN LspciLines ELSE { ErrLspci },
      renderer : IF "glxinfo" \in avail THEN RendererLines ELSE { << >> } ]

\* gpu_info()
gpu_info(out) == [ gpu |-> run(out.gpu), renderer |-> run(out.renderer) ]

\* What grep MemTotal /proc/meminfo can write.
RamOutputs == { << >>, MemTotal16Line, MemTotal8Line, MemTotal7Line, MemTotal3Line }

\* round(n / d) to the nearest integer, ties to the even one (Python's round).
RoundHalfEven(n, d) ==
    LET q == n \div d
        r == n % d
    IN  IF 2 * r < d THEN q
        ELSE IF 2 * r > d THEN q + 1
        ELSE IF q % 2 = 0 THEN q ELSE q + 1

\* ram_info(): round(total_kb / 1024 / 1024, 1), in tenths of a GiB.
ram_info(out) ==
    LET toks   == split(run(out))
        raised == Len(toks) < 2 \/ ~IsIntLiteral(toks[2])
    IN  IF raised THEN [ raised |-> TRUE, gb |-> 0 ]
        ELSE [ raised |-> FALSE, gb |-> RoundHalfEven(int(toks[2]) * 10, 1024 * 1024) ]

\* Text of lsblk -nd -o NAME listing the first n device names.
RECURSIVE LsblkText(_)
LsblkText(n) ==
    IF n = 0 THEN << >> ELSE LsblkText(n - 1) \o DiskNames[n] \o << "\n" >>

SmartLines == { << >>, SmartPassed, SmartFailed, SmartOpenFailed }

\* What lsblk writes, and what smartctl writes for the device of each line.
DiskOutputs(avail, max) ==
    LET lsblks == IF "lsblk" \in avail
                  THEN { LsblkText(n) : n \in 0..max }
                  ELSE { ErrLsblk }
        smarts(n) == IF "smartctl" \in avail
                     THEN [ 1..n -> SmartLines ]
                     ELSE { [ i \in 1..n |-> ErrSmartctl ] }
    IN  UNION { { [ lsblk |-> l, smart |-> s ] : s \in smarts(Len(splitlines(run(l)))) }
                : l \in lsblks }

\* The loop without its early return: every device is queried.
RECURSIVE disk_loop_NoBreak(_, _, _, _)
disk_loop_NoBreak(disks, smart, i, queried) ==
    IF i > Len(disks)
    THEN [ status  |-> IF \E j \in 1..Len(disks) :
                            Contains(<< "F", "A", "I", "L", "E", "D" >>, run(smart[j]))
                       THEN "Failing" ELSE "Healthy",
           queried |-> queried ]
    ELSE disk_loop_NoBreak(disks, smart, i + 1, Append(queried, i))

\* The loop of disk_health() from device i on; queried lists the devices
\* smartctl has been run on.
RECURSIVE disk_loop(_, _, _, _)
disk_loop(disks, smart, i, queried) ==
    IF i > Len(disks) THEN [ status |-> "Healthy", queried |-> queried ]
    ELSE IF Contains(<< "F", "A", "I", "L", "E", "D" >>, run(smart[i]))
         THEN [ status |-> "Failing", queried |-> Append(queried, i) ]
         ELSE disk_loop(disks, smart, i + 1, Append(queried, i))

\* disk_health()
disk_health(out) == disk_loop(splitlines(run(out.lsblk)), out.smart, 1, << >>)

-----------------------------------------------------------------------------
(* main(), one action per call it makes. *)

Init ==
    /\ pc = "choose"
    /\ available \in SUBSET AllTools
    /\ is_root \in BOOLEAN
    /\ tests = << >>
    /\ ready = FALSE
    /\ cpu_s = 0 /\ gpu_s = 0 /\ ram_s = 0 /\ disk_s = 0
    /\ report = << >>
    /\ total = 0
    /\ tips = << >>
    /\ answers = << >>
    /\ installs = << >>
    /\ calls = << >>
    /\ arg = << >>
    /\ ret = << >>

\* tests = choose_tests(); if not tests: return
ChooseTests ==
    /\ pc = "choose"
    /\ \E choice \in Choices :
          /\ tests' = choose_tests(choice)
          /\ pc' = IF choose_tests(choice) = << >> THEN "invalid" ELSE "prepare"
    /\ UNCHANGED << available, is_root, ready, cpu_s, gpu_s, ram_s, disk_s,
                    report, total, tips, answers, installs, calls, arg, ret >>

\* The executables present after `apt install -y` of the packages of missing:
\* each package either installs, bringing its executables, or does not.
AfterInstall(missing, avail) ==
    { avail \cup { c \in DOMAIN missing : missing[c] \in done } :
        done \in SUBSET Range(missing) }

\* What the user can type at a [y/N] prompt.
Replies == { << >>, << "y" >>, << "Y", "e", "s" >>, << "n" >>, << "N", "o" >> }

\* A reply that fails to decline counts as consent.
ask_UnlessNo(reply) == ~(lower(reply) # << >> /\ lower(reply)[1] = "n")

\* ask(msg): input(msg).lower().startswith("y")
ask(reply) == lower(reply) # << >> /\ lower(reply)[1] = "y"

\* if not missing
NothingMissing(missing) == DOMAIN missing = {}

\* ready = prepare_environment(tests), with require_root() inside it.
PrepareEnvironment ==
    /\ pc = "prepare"
    /\ calls' = Append(calls, "prepare_environment")
    /\ LET missing == Missing(tests, available)
       IN  IF DOMAIN missing = {}
           THEN /\ ready' = TRUE
                /\ pc' = "cpu"
                /\ UNCHANGED << available, answers, installs >>
           ELSE \E reply \in Replies :
                  /\ answers' = Append(answers, reply)
                  /\ IF ~ask(reply)
                     THEN /\ ready' = FALSE
                          /\ pc' = "cpu"
                          /\ UNCHANGED << available, installs >>
                     ELSE IF ~is_root
                     THEN /\ pc' = "exited"
                          /\ UNCHANGED << available, ready, installs >>
                     ELSE /\ installs' = Append(installs, Pkgs(missing))
                          /\ available' \in AfterInstall(missing, available)
                          /\ ready' = TRUE
                          /\ pc' = "cpu"
    /\ UNCHANGED << is_root, tests, cpu_s, gpu_s, ram_s, disk_s, report, total,
                    tips, arg, ret >>

\* The GPU collector run whatever was selected.
RunsGpu_Always == TRUE

\* The conditions under which main() runs each collector.
RunsCpu  == InTests("cpu")
RunsGpu  == InTests("gpu")
RunsRam  == InTests("ram")
RunsDisk == InTests("disk") /\ ready

\* if "cpu" in tests: cpu_info, cpu_score, report.append
CollectCpu ==
    /\ pc = "cpu"
    /\ IF RunsCpu
       THEN \E out \in CpuOutputs(available) :
              LET r == cpu_info(out)
                  s == cpu_score(r.cores, r.max_mhz)
              IN  /\ calls' = Append(calls, "cpu_info")
                  /\ IF r.raised
                     THEN pc' = "crashed" /\ UNCHANGED << cpu_s, report >>
                     ELSE /\ cpu_s' = s
                          /\ report' = Append(report,
                                 [ label |-> "CPU", detail |-> r.model, score |-> s ])
                          /\ pc' = "gpu"
       ELSE pc' = "gpu" /\ UNCHANGED << cpu_s, report, calls >>
    /\ UNCHANGED << available, is_root, tests, ready, gpu_s, ram_s, disk_s, total,
                    tips, answers, installs, arg, ret >>

\* if "gpu" in tests: gpu_info, gpu_score, report.append
CollectGpu ==
    /\ pc = "gpu"
    /\ IF RunsGpu
       THEN \E out \in GpuOutputs(available) :
              LET r == gpu_info(out)
                  s == gpu_score(r.gpu, r.renderer)
              IN  /\ calls' = Append(calls, "gpu_info")
                  /\ gpu_s' = s
                  /\ report' = Append(report,
                         [ label |-> "GPU", detail |-> << >>, score |-> s ])
       ELSE UNCHANGED << gpu_s, report, calls >>
    /\ pc' = "ram"
    /\ UNCHANGED << available, is_root, tests, ready, cpu_s, ram_s, disk_s, total,
                    tips, answers, installs, arg, ret >>

\* if "ram" in tests: ram_info, ram_score, report.append
CollectRam ==
    /\ pc = "ram"
    /\ IF RunsRam
       THEN \E out \in RamOutputs :
              LET r == ram_info(out)
                  s == ram_score(r.gb)
              IN  /\ calls' = Append(calls, "ram_info")
                  /\ IF r.raised
                     THEN pc' = "crashed" /\ UNCHANGED << ram_s, report >>
                     ELSE /\ ram_s' = s
                          /\ report' = Append(report,
                                 [ label |-> "RAM", detail |-> r.gb, score |-> s ])
                          /\ pc' = "disk"
       ELSE pc' = "disk" /\ UNCHANGED << ram_s, report, calls >>
    /\ UNCHANGED << available, is_root, tests, ready, cpu_s, gpu_s, disk_s, total,
                    tips, answers, installs, arg, ret >>

\* if "disk" in tests and ready: disk_health, disk_score, report.append
CollectDisk ==
    /\ pc = "disk"
    /\ IF RunsDisk
       THEN \E out \in DiskOutputs(available, MaxRunDisks) :
              LET status == disk_health(out).status
                  s      == disk_score(status)
              IN  /\ calls' = Append(calls, "disk_health")
                  /\ disk_s' = s
                  /\ report' = Append(report,
                         [ label |-> "Disk", detail |-> status, score |-> s ])
       ELSE UNCHANGED << disk_s, report, calls >>
    /\ pc' = "emit"
    /\ UNCHANGED << available, is_root, tests, ready, cpu_s, gpu_s, ram_s, total,
                    tips, answers, installs, arg, ret >>

\* The scores main() hands to ai_suggestions.
SuggestionArgs == << cpu_s, gpu_s, ram_s, disk_s >>

\* The total with the disk score left out.
TotalScore_NoDisk(c, g, r, d) == c + g + r

\* total = cpu_s + gpu_s + ram_s + disk_s
TotalScore(c, g, r, d) == c + g + r + d

\* The total is computed, and the report, the total and the suggestions are
\* printed.
EmitReport ==
    /\ pc = "emit"
    /\ total' = TotalScore(cpu_s, gpu_s, ram_s, disk_s)
    /\ tips' = ai_suggestions(SuggestionArgs[1], SuggestionArgs[2],
                              SuggestionArgs[3], SuggestionArgs[4])
    /\ pc' = "done"
    /\ UNCHANGED << available, is_root, tests, ready, cpu_s, gpu_s, ram_s, disk_s,
                    report, answers, installs, calls, arg, ret >>

Next ==
    \/ ChooseTests
    \/ PrepareEnvironment
    \/ CollectCpu
    \/ CollectGpu
    \/ CollectRam
    \/ CollectDisk
    \/ EmitReport

Spec == Init /\ [][Next]_vars

-----------------------------------------------------------------------------
(* The pure functions applied on their own: the argument is drawn in the   *)
(* initial state (pc = "call") and the result is in ret once pc = "ret".   *)

NoRun ==
    /\ available = {} /\ is_root = FALSE /\ tests = << >> /\ ready = FALSE
    /\ cpu_s = 0 /\ gpu_s = 0 /\ ram_s = 0 /\ disk_s = 0
    /\ report = << >> /\ total = 0 /\ tips = << >>
    /\ answers = << >> /\ installs = << >> /\ calls = << >>

\* ai_suggestions(cpu, gpu, ram, disk) for all score tuples of the range.
ScoreArgs == (0 - 1)..MaxScoreArg

InitSuggestions ==
    /\ NoRun
    /\ pc = "call"
    /\ arg \in ScoreArgs \X ScoreArgs \X ScoreArgs \X ScoreArgs
    /\ ret = << >>

ApplySuggestions ==
    /\ pc = "call"
    /\ ret' = ai_suggestions(arg[1], arg[2], arg[3], arg[4])
    /\ pc' = "ret"
    /\ UNCHANGED << arg, mainVars >>

NextSuggestions == ApplySuggestions

SpecSuggestions == InitSuggestions /\ [][NextSuggestions]_vars

\* Every way of writing the word w in upper and lower case letters.
Casings(w) ==
    { [ i \in 1..Len(w) |-> IF up[i] THEN UpperChar(w[i]) ELSE w[i] ] :
        up \in [ 1..Len(w) -> BOOLEAN ] }

\* Adapter descriptions: the lspci lines of the runs, the shell's error text,
\* every casing of the three vendor names alone and inside a line, and a
\* two-adapter listing.
GpuDescriptions ==
    LspciLines \cup { ErrLspci, VgaPrefix \o Intel \o << "\n" >> \o VgaPrefix \o Nvidia }
    \cup { p \o k \o s : p \in { << >>, VgaPrefix },
                         k \in Casings(Nvidia) \cup Casings(Amd) \cup Casings(Intel),
                         s \in { << >>, ChipSuffix } }

\* Renderer strings: the glxinfo lines and a blank (non-empty) string.
GpuRenderers == RendererLines \cup { << " " >> }

InitGpuScore ==
    /\ NoRun
    /\ pc = "call"
    /\ arg \in [ gpu : GpuDescriptions, renderer : GpuRenderers ]
    /\ ret = 0

ApplyGpuScore ==
    /\ pc = "call"
    /\ ret' = gpu_score(arg.gpu, arg.renderer)
    /\ pc' = "ret"
    /\ UNCHANGED << arg, mainVars >>

NextGpuScore == ApplyGpuScore

SpecGpuScore == InitGpuScore /\ [][NextGpuScore]_vars

\* disk_health() and disk_score(): the texts of lsblk and smartctl are drawn
\* for every combination of the two tools being present or not.
NoDiskResult == [ status |-> "", queried |-> << >>, score |-> 0 ]

InitDiskHealth ==
    /\ NoRun
    /\ pc = "call"
    /\ arg \in UNION { DiskOutputs(a, MaxDisks) : a \in SUBSET { "lsblk", "smartctl" } }
    /\ ret = NoDiskResult

ApplyDiskHealth ==
    /\ pc = "call"
    /\ LET h == disk_health(arg)
       IN  ret' = [ status |-> h.status, queried |-> h.queried,
                    score |-> disk_score(h.status) ]
    /\ pc' = "ret"
    /\ UNCHANGED << arg, mainVars >>

NextDiskHealth == ApplyDiskHealth

SpecDiskHealth == InitDiskHealth /\ [][NextDiskHealth]_vars

-----------------------------------------------------------------------------
(* Properties. *)

Labels     == << "CPU", "GPU", "RAM", "Disk" >>
Collectors == << "cpu_info", "gpu_info", "ram_info", "disk_health" >>
TipOf      == << TipCpu, TipGpu, TipRam, TipDisk >>

\* The report has a line for subsystem i (1 = CPU, ..., 4 = Disk).
HasLine(i) == \E k \in 1..Len(report) : report[k].label = Labels[i]

\* main() has called f.
Called(f) == \E k \in 1..Len(calls) : calls[k] = f

\* The executables test t needs that cannot be resolved.
Unresolved(t) == { c \in DOMAIN TOOLS_BY_TEST[t] : c \notin available }

\* The executables the selected tests need that cannot be resolved.
MissingTools == UNION { Unresolved(tests[i]) : i \in 1..Len(tests) }

\* The packages providing them.
MissingPackages ==
    UNION { { TOOLS_BY_TEST[tests[i]][c] : c \in Unresolved(tests[i]) } :
            i \in 1..Len(tests) }

\* The reply gives consent: it starts with y or Y.
Consents(reply) == reply # << >> /\ reply[1] \in { "y", "Y" }

\* The word w, in any letter case, occurs in the text s.
OccursAnyCase(w, s) ==
    \E i \in 0..(Len(s) - Len(w)) :
        \A j \in 1..Len(w) : s[i + j] = w[j] \/ s[i + j] = UpperChar(w[j])

\* The text s holds FAILED.
HoldsFailed(s) ==
    \E i \in 1..Len(s) :
        i + 5 <= Len(s) /\ SubSeq(s, i, i + 5) = << "F", "A", "I", "L", "E", "D" >>

RECURSIVE SumScores(_)
SumScores(lines) ==
    IF lines = << >> THEN 0 ELSE lines[1].score + SumScores(Tail(lines))

\* Position of a label in the display order CPU, GPU, RAM, Disk.
Rank(names, x) == CHOOSE i \in 1..Len(names) : names[i] = x


\* C1: a subsystem's upgrade tip is among the printed suggestions only if that
\* subsystem was tested in this run, that is, has a line in the report; the
\* default score 0 of an untested subsystem never triggers its tip.
C1_UntestedNeverTriggersTip ==
    pc = "done" =>
        \A i \in 1..4 : (\E k \in 1..Len(tips) : tips[k] = TipOf[i]) => HasLine(i)

\* C2: a collector that cannot locate an expected field never aborts the run:
\* with every needed executable present, no run ends in a collector's uncaught
\* exception, short of the report, the total and the suggestions.
C2_CollectorFailureNeverAborts == ~(pc = "crashed" /\ MissingTools = {})

\* C3: when prepare_environment returned false, the collector of a selected
\* subsystem is run if and only if every executable it needs can be resolved:
\* none is run with a tool missing, and by the end of the run every selected
\* subsystem with all its tools present has been collected.
C3_SkipsExactlySubsystemsWithMissingTools ==
    (pc \in { "cpu", "gpu", "ram", "disk", "emit", "done", "crashed" } /\ ~ready) =>
        \A i \in 1..4 :
            /\ Called(Collectors[i]) => Unresolved(Tests[i]) = {}
            /\ (pc = "done" /\ InTests(Tests[i]) /\ Unresolved(Tests[i]) = {})
                   => Called(Collectors[i])

\* C4: the installer is invoked only by prepare_environment, with tools missing
\* and after a consenting reply; with nothing missing prepare_environment
\* returns true without prompting or installing; with tools missing and a
\* declining reply it returns false without installing.
C4_InstallOnlyWhenMissingAndAuthorized ==
    [][ /\ installs' # installs =>
              /\ pc = "prepare"
              /\ MissingTools # {}
              /\ Len(answers') = Len(answers) + 1
              /\ Consents(answers'[Len(answers')])
        /\ (pc = "prepare" /\ MissingTools = {}) =>
              /\ ready' = TRUE /\ pc' = "cpu"
              /\ answers' = answers /\ installs' = installs
        /\ (pc = "prepare" /\ MissingTools # {}) =>
              /\ Len(answers') = Len(answers) + 1
              /\ ~Consents(answers'[Len(answers')]) =>
                    /\ ready' = FALSE /\ pc' = "cpu"
                    /\ installs' = installs
      ]_vars

C4_Witness ==
    /\ pc = "cpu"
    /\ MissingTools # {}
    /\ Len(answers) = 1 /\ ~Consents(answers[1])
    /\ ready = FALSE
    /\ installs = << >>

\* The installer was invoked by this step, exactly once in the run, with every
\* package of a missing tool named once, and prepare_environment returned true.
InstalledOnceAndReturnedTrue ==
    /\ installs = << >>
    /\ Len(installs') = 1
    /\ DOMAIN installs'[1] = MissingPackages
    /\ \A p \in MissingPackages : installs'[1][p] = 1
    /\ ready' = TRUE
    /\ pc' = "cpu"

\* C5 as stated: with tools missing and a consenting reply, prepare_environment
\* invokes the installer exactly once with the deduplicated packages and
\* returns true.
C5_AuthorizedAlwaysInstalls ==
    [][ (/\ pc = "prepare"
         /\ MissingTools # {}
         /\ Len(answers') = Len(answers) + 1
         /\ Consents(answers'[Len(answers')]))
        => InstalledOnceAndReturnedTrue ]_vars

\* C5 amended: the same when the process runs as root, whether or not the
\* packages installed; when it does not, require_root ends the process and the
\* installer is not invoked.
C5_AuthorizedInstallsAsRoot ==
    [][ (/\ pc = "prepare"
         /\ MissingTools # {}
         /\ Len(answers') = Len(answers) + 1
         /\ Consents(answers'[Len(answers')]))
        => IF is_root
           THEN InstalledOnceAndReturnedTrue
           ELSE pc' = "exited" /\ installs' = installs ]_vars

\* Full selection, lscpu and lsblk were both missing, installation was
\* authorized and ran but left them missing: util-linux was named once and
\* prepare_environment returned true all the same.
C5_Witness ==
    /\ pc = "cpu"
    /\ ready = TRUE
    /\ Len(tests) = 4
    /\ Len(installs) = 1
    /\ "util-linux" \in DOMAIN installs[1]
    /\ installs[1]["util-linux"] = 1
    /\ { "lscpu", "lsblk" } \cap available = {}

\* The tips expected for a score tuple: one per failing threshold.
Thresholds == << 12, 12, 13, 15 >>
Failing(scores) == { i \in 1..4 : scores[i] < Thresholds[i] }

\* C6: ai_suggestions returns the single fallback tip iff all four scores meet
\* their thresholds; otherwise exactly one tip per failing threshold, no
\* fallback tip, in CPU, GPU, RAM, Disk order; the result is never empty.
C6_SuggestionsMatchThresholds ==
    pc = "ret" =>
        /\ ret # << >>
        /\ (ret = << TipNone >>) <=> (Failing(arg) = {})
        /\ Failing(arg) # {} =>
              /\ Len(ret) = Cardinality(Failing(arg))
              /\ \A k \in 1..Len(ret) :
                    \E i \in Failing(arg) : ret[k] = TipOf[i]
              /\ \A i \in Failing(arg) : \E k \in 1..Len(ret) : ret[k] = TipOf[i]
              /\ \A j, k \in 1..Len(ret) :
                    j < k => Rank(TipOf, ret[j]) < Rank(TipOf, ret[k])

C6_Witness ==
    /\ pc = "ret"
    /\ arg = << 11, 12, 12, 15 >>
    /\ ret = << TipCpu, TipRam >>

\* C7: every score is within its range; the printed total is the sum of the
\* scores on the report lines; a subsystem that was not selected, or Disk when
\* preparation returned false, has score 0 and no report line.
C7_ScoresInRangeAndTotalIsSum ==
    /\ cpu_s \in 0..25 /\ gpu_s \in 0..25 /\ ram_s \in 0..20 /\ disk_s \in 0..20
    /\ \A k \in 1..Len(report) :
          report[k].score = << cpu_s, gpu_s, ram_s, disk_s >>[Rank(Labels, report[k].label)]
    /\ \A i \in 1..4 :
          (~InTests(Tests[i]) \/ (i = 4 /\ ~ready)) =>
              ~HasLine(i) /\ << cpu_s, gpu_s, ram_s, disk_s >>[i] = 0
    /\ pc = "done" => total = SumScores(report)

\* Full selection, preparation returned false: Disk was skipped, three lines
\* were reported and the total is their sum.
C7_Witness ==
    /\ pc = "done"
    /\ Len(tests) = 4
    /\ ~ready
    /\ Len(report) = 3
    /\ disk_s = 0
    /\ total = cpu_s + gpu_s + ram_s
    /\ total = 20 + 20 + 20

\* C8 as stated: gpu_score is in [3, 25], and a description holding "nvidia" in
\* any letter case with a non-empty renderer free of "llvmpipe" scores 25.
C8_NvidiaScores25 ==
    pc = "ret" =>
        /\ ret \in 3..25
        /\ (/\ OccursAnyCase(Nvidia, arg.gpu)
            /\ arg.renderer # << >>
            /\ ~OccursAnyCase(SubSeq(Llvmpipe, 1, 8), arg.renderer)) => ret = 25

\* C8 amended: the same with the score 20.
C8_NvidiaScores20 ==
    pc = "ret" =>
        /\ ret \in 3..25
        /\ (/\ OccursAnyCase(Nvidia, arg.gpu)
            /\ arg.renderer # << >>
            /\ ~OccursAnyCase(SubSeq(Llvmpipe, 1, 8), arg.renderer)) => ret = 20

C8_Witness ==
    /\ pc = "ret"
    /\ arg.gpu = VgaPrefix \o << "N", "V", "I", "D", "I", "A" >> \o ChipSuffix
    /\ arg.renderer = RendererPrefix \o GeForce
    /\ ret = 20

\* C9: preparation is called once and before any collector; the collectors run
\* in the order CPU, GPU, RAM, Disk, each at most once and only for selected
\* subsystems; the report lines are in that order, for selected subsystems only.
C9_PipelineOrder ==
    LET Order == << "prepare_environment" >> \o Collectors
    IN  /\ \A k \in 1..Len(calls) : \E i \in 1..5 : calls[k] = Order[i]
        /\ \A j, k \in 1..Len(calls) :
              j < k => Rank(Order, calls[j]) < Rank(Order, calls[k])
        /\ calls # << >> => calls[1] = "prepare_environment"
        /\ pc \in { "cpu", "gpu", "ram", "disk", "emit", "done", "crashed", "exited" }
              => calls # << >>
        /\ \A i \in 1..4 : Called(Collectors[i]) => InTests(Tests[i])
        /\ \A j, k \in 1..Len(report) :
              j < k => Rank(Labels, report[j].label) < Rank(Labels, report[k].label)
        /\ \A i \in 1..4 : HasLine(i) => InTests(Tests[i]) /\ Called(Collectors[i])

C9_Witness ==
    /\ pc = "done"
    /\ calls = << "prepare_environment", "cpu_info", "gpu_info", "ram_info", "disk_health" >>
    /\ Len(report) = 4
    /\ \A i \in 1..4 : report[i].label = Labels[i]

\* The devices lsblk listed, and the first of them whose smartctl text holds
\* FAILED (one past the last when none does).
Listed == Len(arg.smart)
FirstFailed ==
    IF \E i \in 1..Listed : HoldsFailed(arg.smart[i])
    THEN CHOOSE i \in 1..Listed :
            HoldsFailed(arg.smart[i]) /\ \A j \in 1..(i - 1) : ~HoldsFailed(arg.smart[j])
    ELSE Listed + 1

\* C10: disk_health queries the devices in listing order and returns "Failing"
\* iff some device's text holds FAILED, querying none after the first such
\* device; otherwise, also with no device, "Healthy"; disk_score is 20 for
\* "Healthy" and 8 otherwise.
C10_DiskHealthShortCircuits ==
    pc = "ret" =>
        /\ (ret.status = "Failing") <=> (\E i \in 1..Listed : HoldsFailed(arg.smart[i]))
        /\ ret.status \in { "Healthy", "Failing" }
        /\ Listed = 0 => ret.status = "Healthy"
        /\ ret.queried = [ i \in 1..Min(FirstFailed, Listed) |-> i ]
        /\ ret.score = IF ret.status = "Healthy" THEN 20 ELSE 8

\* Three devices, the second reports FAILED: the third is never queried.
C10_Witness ==
    /\ pc = "ret"
    /\ Listed = 3
    /\ ~HoldsFailed(arg.smart[1]) /\ HoldsFailed(arg.smart[2])
    /\ ret.status = "Failing"
    /\ ret.queried = << 1, 2 >>
    /\ ret.score = 8

=============================================================================
